---- MODULE Spec2Model ----
(***************************************************************************)
(* API key management system: subscription lifecycle, JWT sessions and     *)
(* token revocation.                                                       *)
(*                                                                         *)
(* The repository ships the same service twice.  impl = "next" is the      *)
(* Next.js application (route.ts handlers, lib/api-keys/jwt, the auth      *)
(* middleware, lib/api-keys/maintenance, Prisma storage).  impl = "json"   *)
(* is the Express server with the JSON-file database (database/db.js).     *)
(* A deployment runs one of them; impl is fixed by Init.                   *)
(*                                                                         *)
(* Time is counted in half hours.  A token is the value (uid, type, iat): *)
(* two tokens signed for the same key, of the same type, in the same       *)
(* instant are the same string, as with jsonwebtoken.                      *)
(***************************************************************************)
EXTENDS Integers, Sequences, FiniteSets, TLC

\* ---------------------------------------------------------------- bounds
MaxTicks == 2
MaxSessions == 1
MaxUsage == 2
MaxAudit == 3
MaxPayments == 2
NumKeys == 2
MaxLimit == 2

\* ------------------------------------------------------ program constants
\* (in half hours: 1 day, '1h', '7d', 3600 s, 7 * 24 * 60 * 60 s)
DAY == 48
JWT_EXPIRES_IN == 2
REFRESH_TOKEN_EXPIRES_IN == 336
LOGOUT_BLACKLIST_TTL == 2
ROTATION_BLACKLIST_TTL == 336
DEFAULT_PRICE == 50
AUTO_RENEW_DAYS == 30
DEFAULT_DURATION_DAYS == 30
AUDIT_LOG_CAP == 500

\* ------------------------------------------------------------ input sets
KeyIds == 1..NumKeys
Jumps == {1, DAY, 7 * DAY}
Durations == {1, 7}
\* durationDays is read from the body as it comes: any number is accepted
AnyDurations == {-1, 0, 1}
KeyTypes == {"admin", "normal"}
Impls == {"next", "json"}

\* an unused key slot; gone marks a uid whose key was deleted (uids are
\* random UUIDs and never come back)
NoKey == [exists |-> FALSE, gone |-> FALSE, type |-> "none", isActive |-> FALSE, usageCount |-> 0]
DeletedKey == [NoKey EXCEPT !.gone = TRUE]
NoSub == [exists |-> FALSE, enabled |-> FALSE, status |-> "none", startDate |-> 0,
          endDate |-> 0, autoRenew |-> FALSE, renewalDate |-> -1, price |-> 0]
NoToken == [uid |-> 0, type |-> "none", iat |-> 0]
BadToken == [uid |-> 0, type |-> "forged", iat |-> 0]
NoDate == -1

\* requests that have read and not yet written: the handlers are async
\* functions and give up control at every await.  A request in flight holds
\* what it read: seen is the subscription record and active the key's
\* isActive, at the instant it took as 'now', d the durationDays of its body,
\* pending the records a sweep still has to visit.
Slots == 1..2
Req(op, uid, tok, seen, active, d, at, pending) ==
  [op |-> op, uid |-> uid, tok |-> tok, seen |-> seen, active |-> active, d |-> d,
   at |-> at, pending |-> pending, fault |-> "none", code |-> "none"]
Idle == Req("none", 0, NoToken, NoSub, FALSE, 0, 0, {})

\* a write of the handler that the storage may fail: none, the payment
\* record, or the audit entry
Faults == {"none", "payment", "audit"}
\* a handler that has run to its response under a fault
Answered(op, uid, fault, code) ==
  [Req(op, uid, NoToken, NoSub, FALSE, 0, 0, {}) EXCEPT !.fault = fault, !.code = code]
AnsweredOps == {"activate_answered", "renew_answered", "cancel_answered"}

\* the in-memory rate limiter: its configuration (requests per window, the
\* window's length) and rateLimitStore, one counter entry per caller
Callers == {"ip1", "ip2"}
NoEntry == [count |-> 0, resetTime |-> NoDate]
Limiter(maxRequests, windowMs) ==
  [requests |-> maxRequests, window |-> windowMs, store |-> [c \in Callers |-> NoEntry]]

VARIABLES impl, now, ticks, apiKeys, subscriptions, payments, auditLogs,
          jwtBlacklist, sessions, usedRefresh, loggedOut, inflight, rateLimit

vars == <<impl, now, ticks, apiKeys, subscriptions, payments, auditLogs,
          jwtBlacklist, sessions, usedRefresh, loggedOut, inflight, rateLimit>>

\* history: the refresh tokens a successful refresh has consumed, and the
\* access tokens a logout has revoked
history == <<usedRefresh, loggedOut>>

store == <<apiKeys, subscriptions, payments, auditLogs>>

Max(a, b) == IF a >= b THEN a ELSE b

\* ---------------------------------------------------------------- tokens
Token(uid, type, iat) == [uid |-> uid, type |-> type, iat |-> iat]

generateAdminToken(uid) == Token(uid, "admin", now)

generateRefreshToken(uid) == Token(uid, "refresh", now)

TokenExp(tok) ==
  tok.iat + (IF tok.type = "refresh" THEN REFRESH_TOKEN_EXPIRES_IN ELSE JWT_EXPIRES_IN)

\* every token the service has signed so far
Issued == { Token(s[1], ty, s[2]) : s \in sessions, ty \in {"admin", "refresh"} }

\* what a caller can put in the Authorization header
Presentable == Issued \cup {NoToken, BadToken}

\* what the callers of the key and subscription routes send: nothing, or an
\* access token they were given (current, expired or revoked)
Bearers == {NoToken} \cup { tok \in Issued : tok.type = "admin" }

\* jwt.verify: signature, then exp (expired when clock >= exp)
verifyToken(tok) == tok \in Issued /\ now < TokenExp(tok)

\* ------------------------------------------------------- revocation set
Entry(tok, ttl) == [token |-> tok, expiresAt |-> now + ttl]

\* an entry still counts: db.js keeps expiresAt > now, the Prisma lookup
\* drops an entry only when now > expiresAt
EntryLive(e) == IF impl = "json" THEN e.expiresAt > now ELSE ~(now > e.expiresAt)

isTokenBlacklisted(tok) == \E e \in jwtBlacklist : e.token = tok /\ EntryLive(e)

\* the write a lookup performs: db.js rewrites the file without the expired
\* entries, the Prisma version deletes the looked-up entry when it is expired
PruneOnLookup(tok) ==
  IF impl = "json"
    THEN { e \in jwtBlacklist : EntryLive(e) }
    ELSE { e \in jwtBlacklist : ~(e.token = tok /\ ~EntryLive(e)) }

\* --------------------------------------------------------- subscriptions
isSubscriptionExpired_atEndDate(endDate) == now >= endDate

isSubscriptionExpired(endDate) == now > endDate

calculateEndDate(startDate, durationDays) == startDate + durationDays * DAY

\* Math.ceil((endDate - now) / one day)
calculateDaysRemaining(endDate) == -((now - endDate) \div DAY)

isSubscriptionNearExpiry(endDate, daysThreshold) ==
  calculateDaysRemaining(endDate) >= 0 /\ calculateDaysRemaining(endDate) <= daysThreshold

HasEnabledSub(uid) == subscriptions[uid].exists /\ subscriptions[uid].enabled

Sub(st, sd, ed, ar, rd, pr) ==
  [exists |-> TRUE, enabled |-> TRUE, status |-> st, startDate |-> sd,
   endDate |-> ed, autoRenew |-> ar, renewalDate |-> rd, price |-> pr]

Key(ty, act, uc) ==
  [exists |-> TRUE, gone |-> FALSE, type |-> ty, isActive |-> act, usageCount |-> uc]

Audit(uid, action) == [apiKeyUid |-> uid, action |-> action]

Payment(uid, amount, method) == [apiKeyUid |-> uid, amount |-> amount, method |-> method]

\* db.js createAuditLog: push, then keep the last 500 entries
createAuditLog(log, entry) ==
  LET pushed == Append(log, entry) IN
  IF Len(pushed) > AUDIT_LOG_CAP
    THEN SubSeq(pushed, Len(pushed) - AUDIT_LOG_CAP + 1, Len(pushed))
    ELSE pushed

\* one audit write of a handler: db.createAuditLog in the Express server,
\* db.auditLog.create (a table insert) in the Next.js application
WriteAudit(log, entry) ==
  IF impl = "json" THEN createAuditLog(log, entry) ELSE Append(log, entry)

\* the audit log is followed over its first MaxAudit entries, and from the
\* last entry below the retention cap over MaxAudit entries or until the
\* entry it started with is gone
AuditRoom ==
  \/ Len(auditLogs) < MaxAudit
  \/ /\ Len(auditLogs) >= AUDIT_LOG_CAP - 1
     /\ Len(auditLogs) - (AUDIT_LOG_CAP - 1) < MaxAudit
     /\ auditLogs[1].action = "admin_login"

\* ---------------------------------------------------------------- Init
\* the seeded database: one active admin key; a subscription record left
\* disabled by an earlier data set may be attached to it
InitWith(sub1, limiter) ==
  /\ impl \in Impls
  /\ now = 0
  /\ ticks = 0
  /\ apiKeys = [k \in KeyIds |-> IF k = 1 THEN Key("admin", TRUE, 0) ELSE NoKey]
  /\ subscriptions = [k \in KeyIds |-> IF k = 1 THEN sub1 ELSE NoSub]
  /\ payments = <<>>
  /\ auditLogs = <<>>
  /\ jwtBlacklist = {}
  /\ sessions = {}
  /\ usedRefresh = {}
  /\ loggedOut = {}
  /\ inflight = [s \in Slots |-> Idle]
  /\ rateLimit = limiter

LegacySub == [Sub("active", 0, 0, FALSE, NoDate, DEFAULT_PRICE) EXCEPT !.enabled = FALSE]

Init == \E sub1 \in {NoSub, LegacySub} : InitWith(sub1, Limiter(1, 1))

\* the seed alone
InitSeed == InitWith(NoSub, Limiter(1, 1))

\* a database in service: the admin logged in once and has since switched
\* the key's isActive 498 times; the tokens of that session have expired
InitAged ==
  /\ impl \in Impls
  /\ now = 0
  /\ ticks = 0
  /\ apiKeys = [k \in KeyIds |-> IF k = 1 THEN Key("admin", TRUE, 1) ELSE NoKey]
  /\ subscriptions = [k \in KeyIds |-> NoSub]
  /\ payments = <<>>
  /\ auditLogs = [i \in 1..(AUDIT_LOG_CAP - 1) |->
                    IF i = 1 THEN Audit(1, "admin_login") ELSE Audit(1, "update_api_key")]
  /\ jwtBlacklist = {}
  /\ sessions = {}
  /\ usedRefresh = {}
  /\ loggedOut = {}
  /\ inflight = [s \in Slots |-> Idle]
  /\ rateLimit = Limiter(1, 1)

\* ---------------------------------------------------------------- clock
\* the clock moves on by one of the steps of J
TickBy(J) ==
  /\ ticks < MaxTicks
  /\ \E d \in J :
       /\ now' = now + d
       /\ ticks' = ticks + 1
  /\ UNCHANGED <<impl, rateLimit, apiKeys, subscriptions, payments, auditLogs, jwtBlacklist,
                 sessions, history, inflight>>

Tick == TickBy(Jumps)

\* ------------------------------------------------------------ Gatekeeper
\* middleware/auth.ts validateAdminToken (verifyTokenAndCheckBlacklist inlined)
validateAdminToken(tok) ==
  IF tok = NoToken THEN "MISSING_TOKEN"
  ELSE IF isTokenBlacklisted(tok) \/ ~verifyToken(tok) THEN "INVALID_TOKEN"
  ELSE IF tok.type # "admin" THEN "INSUFFICIENT_PERMISSIONS"
  ELSE IF ~apiKeys[tok.uid].exists \/ ~apiKeys[tok.uid].isActive
          \/ apiKeys[tok.uid].type # "admin" THEN "INVALID_ADMIN"
  ELSE "PASS"

\* Express server authenticateAdmin
authenticateAdmin(tok) ==
  IF tok = NoToken THEN "MISSING_TOKEN"
  ELSE IF isTokenBlacklisted(tok) THEN "BLACKLISTED_TOKEN"
  ELSE IF ~verifyToken(tok) \/ tok.type # "admin" THEN "INVALID_TOKEN"
  ELSE "PASS"

Gatekeeper(tok) == IF impl = "next" THEN validateAdminToken(tok) ELSE authenticateAdmin(tok)

\* the revocation set after the Gatekeeper ran on tok
GateBlacklist(tok) == IF tok = NoToken THEN jwtBlacklist ELSE PruneOnLookup(tok)

\* which routes run the Gatekeeper before their handler: the Express server
\* registers authenticateAdmin on every /api/admin/keys route; the Next.js
\* application wraps only the collection route (list, create) in withAdminAuth
RouteGuarded(route) == impl = "json" \/ route \in {"list_keys", "create_key"}

Rejected(route, tok) == RouteGuarded(route) /\ Gatekeeper(tok) # "PASS"

RouteBlacklist(route, tok) == IF RouteGuarded(route) THEN GateBlacklist(tok) ELSE jwtBlacklist

\* --------------------------------------------------------------- sessions
CanMint(uid) == <<uid, now>> \in sessions \/ Cardinality(sessions) < MaxSessions

MintPair(uid) == {generateAdminToken(uid), generateRefreshToken(uid)}

LoginCode_typeBeforeActive(cred) ==
  IF cred = 0 THEN "MISSING_API_KEY"
  ELSE IF ~apiKeys[cred].exists THEN "INVALID_API_KEY"
  ELSE IF apiKeys[cred].type # "admin" THEN "NOT_ADMIN_KEY"
  ELSE IF ~apiKeys[cred].isActive THEN "INACTIVE_API_KEY"
  ELSE IF HasEnabledSub(cred) /\ isSubscriptionExpired(subscriptions[cred].endDate)
    THEN "SUBSCRIPTION_EXPIRED"
  ELSE "OK"

LoginCode_noSubscriptionCheck(cred) ==
  IF cred = 0 THEN "MISSING_API_KEY"
  ELSE IF ~apiKeys[cred].exists THEN "INVALID_API_KEY"
  ELSE IF ~apiKeys[cred].isActive THEN "INACTIVE_API_KEY"
  ELSE IF apiKeys[cred].type # "admin" THEN "NOT_ADMIN_KEY"
  ELSE "OK"

\* POST /api/admin/auth/validate; cred is the key whose value is presented
\* (0: no value in the body)
LoginCode(cred) ==
  IF cred = 0 THEN "MISSING_API_KEY"
  ELSE IF ~apiKeys[cred].exists THEN "INVALID_API_KEY"
  ELSE IF ~apiKeys[cred].isActive THEN "INACTIVE_API_KEY"
  ELSE IF apiKeys[cred].type # "admin" THEN "NOT_ADMIN_KEY"
  ELSE IF HasEnabledSub(cred) /\ isSubscriptionExpired(subscriptions[cred].endDate)
    THEN "SUBSCRIPTION_EXPIRED"
  ELSE "OK"

\* the subscription records the login handler updates (data: status 'expired')
LoginExpiryWrites(cred) == IF LoginCode(cred) = "SUBSCRIPTION_EXPIRED" THEN {cred} ELSE {}

\* the token pair login returns
LoginMinted(cred) == IF LoginCode(cred) = "OK" THEN MintPair(cred) ELSE {}

LoginReq(cred) ==
  LET code == LoginCode(cred) IN
  /\ code = "OK" =>
       /\ CanMint(cred)
       /\ AuditRoom
       /\ apiKeys[cred].usageCount < MaxUsage
  /\ subscriptions' =
       IF code = "SUBSCRIPTION_EXPIRED"
         THEN [subscriptions EXCEPT ![cred].status = "expired"]
         ELSE subscriptions
  /\ sessions' = sessions \cup { <<t.uid, t.iat>> : t \in LoginMinted(cred) }
  /\ auditLogs' = IF code = "OK" THEN WriteAudit(auditLogs, Audit(cred, "admin_login"))
                                   ELSE auditLogs
  /\ apiKeys' = IF code = "OK"
                  THEN [apiKeys EXCEPT ![cred].usageCount = @ + 1]
                  ELSE apiKeys
  /\ UNCHANGED <<impl, rateLimit, now, ticks, payments, jwtBlacklist, history, inflight>>

Login == \E cred \in KeyIds \cup {0} : LoginReq(cred)

\* middleware/auth.ts validateApiKey: the x-api-key check in front of the
\* public API (cred as for login); it does not look at the key's type
validateApiKey(cred) ==
  IF cred = 0 THEN "MISSING_API_KEY"
  ELSE IF ~apiKeys[cred].exists THEN "INVALID_API_KEY"
  ELSE IF ~apiKeys[cred].isActive THEN "INACTIVE_API_KEY"
  ELSE IF HasEnabledSub(cred) /\ isSubscriptionExpired(subscriptions[cred].endDate)
    THEN "SUBSCRIPTION_EXPIRED"
  ELSE "PASS"

\* a request through withApiKeyAuth (Next.js application only).  A key with
\* an enabled, current subscription passes on the early return, before the
\* usage counter is touched.
ValidateKeyReq(cred) ==
  LET code == validateApiKey(cred)
      counted == code = "PASS" /\ ~HasEnabledSub(cred)
  IN
  /\ impl = "next"
  /\ counted => apiKeys[cred].usageCount < MaxUsage
  /\ subscriptions' =
       IF code = "SUBSCRIPTION_EXPIRED"
         THEN [subscriptions EXCEPT ![cred].status = "expired"]
         ELSE subscriptions
  /\ apiKeys' = IF counted THEN [apiKeys EXCEPT ![cred].usageCount = @ + 1] ELSE apiKeys
  /\ UNCHANGED <<impl, rateLimit, now, ticks, payments, auditLogs, jwtBlacklist, sessions, history, inflight>>

ValidateKey == \E cred \in KeyIds \cup {0} : ValidateKeyReq(cred)

RefreshCode_noSubscriptionCheck(tok) ==
  IF tok = NoToken THEN "MISSING_REFRESH_TOKEN"
  ELSE IF impl = "json" /\ isTokenBlacklisted(tok) THEN "BLACKLISTED_TOKEN"
  ELSE IF isTokenBlacklisted(tok) \/ ~verifyToken(tok) \/ tok.type # "refresh"
    THEN "INVALID_REFRESH_TOKEN"
  ELSE IF ~apiKeys[tok.uid].exists \/ ~apiKeys[tok.uid].isActive
          \/ apiKeys[tok.uid].type # "admin" THEN "INVALID_ADMIN"
  ELSE "OK"

\* GET /api/admin/auth/refresh
RefreshCode_anyType(tok) ==
  IF tok = NoToken THEN "MISSING_REFRESH_TOKEN"
  ELSE IF impl = "json" /\ isTokenBlacklisted(tok) THEN "BLACKLISTED_TOKEN"
  ELSE IF isTokenBlacklisted(tok) \/ ~verifyToken(tok) THEN "INVALID_REFRESH_TOKEN"
  ELSE IF ~apiKeys[tok.uid].exists \/ ~apiKeys[tok.uid].isActive
          \/ apiKeys[tok.uid].type # "admin" THEN "INVALID_ADMIN"
  ELSE IF HasEnabledSub(tok.uid) /\ isSubscriptionExpired(subscriptions[tok.uid].endDate)
    THEN "SUBSCRIPTION_EXPIRED"
  ELSE "OK"

RefreshCode(tok) ==
  IF tok = NoToken THEN "MISSING_REFRESH_TOKEN"
  ELSE IF impl = "json" /\ isTokenBlacklisted(tok) THEN "BLACKLISTED_TOKEN"
  ELSE IF isTokenBlacklisted(tok) \/ ~verifyToken(tok) \/ tok.type # "refresh"
    THEN "INVALID_REFRESH_TOKEN"
  ELSE IF ~apiKeys[tok.uid].exists \/ ~apiKeys[tok.uid].isActive
          \/ apiKeys[tok.uid].type # "admin" THEN "INVALID_ADMIN"
  ELSE IF HasEnabledSub(tok.uid) /\ isSubscriptionExpired(subscriptions[tok.uid].endDate)
    THEN "SUBSCRIPTION_EXPIRED"
  ELSE "OK"

\* the token pair refresh returns
RefreshMinted(tok) == IF RefreshCode(tok) = "OK" THEN MintPair(tok.uid) ELSE {}

RotatedBlacklist_oneHour(tok) ==
  PruneOnLookup(tok) \cup {Entry(tok, LOGOUT_BLACKLIST_TTL)}

\* rotation: blacklistToken(refreshToken, 7 * 24 * 60 * 60) after the lookup
RotatedBlacklist(tok) == PruneOnLookup(tok) \cup {Entry(tok, ROTATION_BLACKLIST_TTL)}

RefreshReq(tok) ==
  LET code == RefreshCode(tok) IN
  /\ code = "OK" => CanMint(tok.uid)
  /\ sessions' = sessions \cup { <<t.uid, t.iat>> : t \in RefreshMinted(tok) }
  /\ jwtBlacklist' = IF code = "OK" THEN RotatedBlacklist(tok) ELSE GateBlacklist(tok)
  /\ usedRefresh' = IF code = "OK" THEN usedRefresh \cup {tok} ELSE usedRefresh
  /\ UNCHANGED <<impl, rateLimit, now, ticks, apiKeys, subscriptions, payments, auditLogs, loggedOut,
                 inflight>>

Refresh == \E tok \in Presentable : RefreshReq(tok)

\* DELETE /api/admin/auth/logout.  The Next.js route calls blacklistToken
\* (throws on a token that does not verify, and on the unique constraint of
\* jwtBlacklist.token); the Express route blacklists only a verified token
\* and answers success either way.
LogoutCode(tok) ==
  IF tok = NoToken THEN "MISSING_TOKEN"
  ELSE IF impl = "next" /\ (~verifyToken(tok) \/ \E e \in jwtBlacklist : e.token = tok)
    THEN "INTERNAL_ERROR"
  ELSE "OK"

LogoutEntry_noTtl(tok) == Entry(tok, 0)

\* the entry logout inserts: blacklistToken(token) with its default of 3600 s,
\* db.addToJwtBlacklist(token, 3600)
LogoutEntry(tok) == Entry(tok, LOGOUT_BLACKLIST_TTL)

LogoutReq(tok) ==
  LET revoked == LogoutCode(tok) = "OK" /\ verifyToken(tok) IN
  /\ jwtBlacklist' = IF revoked THEN jwtBlacklist \cup {LogoutEntry(tok)} ELSE jwtBlacklist
  /\ loggedOut' = IF revoked THEN loggedOut \cup {tok} ELSE loggedOut
  /\ UNCHANGED <<impl, rateLimit, now, ticks, apiKeys, subscriptions, payments, auditLogs,
                 sessions, usedRefresh, inflight>>

Logout == \E tok \in Presentable : LogoutReq(tok)

\* a protected read-only admin route (GET /api/admin/keys)
AuthorizeReq(tok) ==
  /\ jwtBlacklist' = RouteBlacklist("list_keys", tok)
  /\ UNCHANGED <<impl, rateLimit, now, ticks, apiKeys, subscriptions, payments, auditLogs,
                 sessions, history, inflight>>

Authorize == \E tok \in Presentable : AuthorizeReq(tok)

\* ------------------------------------------------ subscription routes
ActivateCode_noGuard(uid) == IF ~apiKeys[uid].exists THEN "API_KEY_NOT_FOUND" ELSE "OK"

\* POST /api/admin/keys/:uid/subscription/activate
ActivateCode(uid) ==
  IF ~apiKeys[uid].exists THEN "API_KEY_NOT_FOUND"
  ELSE IF HasEnabledSub(uid) THEN "SUBSCRIPTION_EXISTS"
  ELSE "OK"

\* the record activate stores: the Next.js route also sets renewalDate; the
\* Express route never writes that field (an updated record keeps its old one)
ActivatedSub(uid, durationDays, autoRenew) ==
  LET endDate == calculateEndDate(now, durationDays) IN
  Sub("active", now, endDate, autoRenew,
      IF impl = "next" THEN (IF autoRenew THEN endDate ELSE NoDate)
                       ELSE subscriptions[uid].renewalDate,
      DEFAULT_PRICE)

ActivateReq(tok, uid, durationDays, autoRenew) ==
  LET ok == ~Rejected("activate", tok) /\ ActivateCode(uid) = "OK" IN
  /\ UNCHANGED <<impl, rateLimit, now, ticks, sessions, history, inflight>>
  /\ ok => AuditRoom /\ Len(payments) < MaxPayments
  /\ jwtBlacklist' = RouteBlacklist("activate", tok)
  /\ subscriptions' =
       IF ok THEN [subscriptions EXCEPT ![uid] = ActivatedSub(uid, durationDays, autoRenew)]
             ELSE subscriptions
  /\ apiKeys' = IF ok /\ impl = "next" THEN [apiKeys EXCEPT ![uid].isActive = TRUE]
                                       ELSE apiKeys
  /\ payments' = IF ok THEN Append(payments, Payment(uid, DEFAULT_PRICE, "manual"))
                       ELSE payments
  /\ auditLogs' = IF ok THEN WriteAudit(auditLogs, Audit(uid, "activate_subscription"))
                        ELSE auditLogs

ActivateWith(D) ==
  \E tok \in Bearers, uid \in KeyIds, d \in D, ar \in BOOLEAN :
    ActivateReq(tok, uid, d, ar)

Activate == ActivateWith(Durations)

\* POST /api/admin/keys/:uid/subscription/renew
RenewCode(uid) ==
  IF ~apiKeys[uid].exists THEN "API_KEY_NOT_FOUND"
  ELSE IF ~subscriptions[uid].exists
    THEN (IF impl = "next" THEN "NO_SUBSCRIPTION" ELSE "SUBSCRIPTION_NOT_FOUND")
  ELSE "OK"

RenewedEndDate_fromNow(uid, durationDays) == now + durationDays * DAY

\* the end date renew stores
RenewedEndDate(uid, durationDays) ==
  LET base == IF isSubscriptionExpired(subscriptions[uid].endDate)
                THEN now ELSE subscriptions[uid].endDate
  IN  base + durationDays * DAY

\* no amount in the request body
NoAmount == -1

\* amount || subscription.price
PaidAmount(amount, price) == IF amount = NoAmount \/ amount = 0 THEN price ELSE amount

RenewPaidReq(tok, uid, durationDays, amount) ==
  LET ok == ~Rejected("renew", tok) /\ RenewCode(uid) = "OK"
      newEndDate == RenewedEndDate(uid, durationDays)
  IN
  /\ UNCHANGED <<impl, rateLimit, now, ticks, sessions, history, inflight>>
  /\ ok => AuditRoom /\ Len(payments) < MaxPayments
  /\ jwtBlacklist' = RouteBlacklist("renew", tok)
  /\ subscriptions' =
       IF ok
         THEN [subscriptions EXCEPT
                 ![uid].endDate = newEndDate,
                 ![uid].status = "active",
                 ![uid].renewalDate =
                    IF impl = "next"
                      THEN (IF subscriptions[uid].autoRenew THEN newEndDate ELSE NoDate)
                      ELSE @]
         ELSE subscriptions
  /\ apiKeys' = IF ok THEN [apiKeys EXCEPT ![uid].isActive = TRUE] ELSE apiKeys
  /\ payments' =
       IF ok THEN Append(payments,
                         Payment(uid, PaidAmount(amount, subscriptions[uid].price), "manual"))
             ELSE payments
  /\ auditLogs' = IF ok THEN WriteAudit(auditLogs, Audit(uid, "renew_subscription"))
                        ELSE auditLogs

\* a renew whose body carries no amount
RenewReq(tok, uid, durationDays) == RenewPaidReq(tok, uid, durationDays, NoAmount)

RenewWith(D) == \E tok \in Bearers, uid \in KeyIds, d \in D : RenewReq(tok, uid, d)

Renew == RenewWith(Durations)

\* POST /api/admin/keys/:uid/subscription/cancel (the Express route looks up
\* the subscription only, the Next.js route the key first)
CancelCode(uid) ==
  IF impl = "next" /\ ~apiKeys[uid].exists THEN "API_KEY_NOT_FOUND"
  ELSE IF ~subscriptions[uid].exists
    THEN (IF impl = "next" THEN "NO_SUBSCRIPTION" ELSE "SUBSCRIPTION_NOT_FOUND")
  ELSE IF ~subscriptions[uid].enabled THEN "SUBSCRIPTION_NOT_ACTIVE"
  ELSE "OK"

CancelledSub_endsNow(uid) ==
  [subscriptions[uid] EXCEPT !.autoRenew = FALSE, !.status = "cancelled", !.endDate = now]

\* the record cancel stores
CancelledSub(uid) == [subscriptions[uid] EXCEPT !.autoRenew = FALSE, !.status = "cancelled"]

CancelReq(tok, uid) ==
  LET ok == ~Rejected("cancel", tok) /\ CancelCode(uid) = "OK" IN
  /\ UNCHANGED <<impl, rateLimit, now, ticks, apiKeys, payments, sessions, history, inflight>>
  /\ ok => AuditRoom
  /\ jwtBlacklist' = RouteBlacklist("cancel", tok)
  /\ subscriptions' = IF ok THEN [subscriptions EXCEPT ![uid] = CancelledSub(uid)]
                            ELSE subscriptions
  /\ auditLogs' = IF ok THEN WriteAudit(auditLogs, Audit(uid, "cancel_subscription"))
                        ELSE auditLogs

Cancel == \E tok \in Bearers, uid \in KeyIds : CancelReq(tok, uid)

\* ----------------------------------------------------------- key routes
\* PUT /api/admin/keys/:uid with isActive in the body
UpdateKeyReq(tok, uid, isActive) ==
  LET ok == ~Rejected("update_key", tok) /\ apiKeys[uid].exists IN
  /\ ok => AuditRoom
  /\ jwtBlacklist' = RouteBlacklist("update_key", tok)
  /\ apiKeys' = IF ok THEN [apiKeys EXCEPT ![uid].isActive = isActive] ELSE apiKeys
  /\ auditLogs' = IF ok THEN WriteAudit(auditLogs, Audit(uid, "update_api_key")) ELSE auditLogs
  /\ UNCHANGED <<impl, rateLimit, now, ticks, subscriptions, payments, sessions, history, inflight>>

UpdateKey == \E tok \in Bearers, uid \in KeyIds, a \in BOOLEAN : UpdateKeyReq(tok, uid, a)

\* DELETE /api/admin/keys/:uid.  db.js deleteApiKey removes the subscription,
\* then deletePaymentsByApiKeyUid looks the subscription up again (it is gone,
\* so no payment is removed), then the key.  The Next.js route deletes the
\* key row; its subscription goes with it.
\* db.apiKey.delete takes the key's subscription and related records with it
\* (payments, audit entries); db.deleteApiKey deletes the subscription and
\* then looks for the payments of a subscription that is no longer stored
DeleteKeyReq(tok, uid) ==
  LET ok == ~Rejected("delete_key", tok) /\ apiKeys[uid].exists
      cascade == ok /\ impl = "next"
      others(e) == e.apiKeyUid # uid
  IN
  /\ jwtBlacklist' = RouteBlacklist("delete_key", tok)
  /\ apiKeys' = IF ok THEN [apiKeys EXCEPT ![uid] = DeletedKey] ELSE apiKeys
  /\ subscriptions' = IF ok THEN [subscriptions EXCEPT ![uid] = NoSub] ELSE subscriptions
  /\ payments' = IF cascade THEN SelectSeq(payments, others) ELSE payments
  /\ auditLogs' = IF cascade THEN SelectSeq(auditLogs, others) ELSE auditLogs
  /\ UNCHANGED <<impl, rateLimit, now, ticks, sessions, history, inflight>>

DeleteKey == \E tok \in Bearers, uid \in KeyIds : DeleteKeyReq(tok, uid)

\* POST /api/admin/keys: a new key under a fresh uid, optionally with a
\* subscription (the Express route records its first payment as well)
FreshUid == CHOOSE k \in KeyIds :
              /\ ~apiKeys[k].exists /\ ~apiKeys[k].gone
              /\ \A j \in KeyIds : (~apiKeys[j].exists /\ ~apiKeys[j].gone) => k <= j

CreateKeyReq(tok, type, withSub, durationDays) ==
  LET ok == ~Rejected("create_key", tok)
      paid == ok /\ withSub /\ impl = "json"
      uid == FreshUid
      \* subscription.durationDays || 30
      endDate == calculateEndDate(now, IF durationDays = 0 THEN DEFAULT_DURATION_DAYS
                                                            ELSE durationDays)
  IN
  /\ \E k \in KeyIds : ~apiKeys[k].exists /\ ~apiKeys[k].gone
  /\ ok => AuditRoom
  /\ paid => Len(payments) < MaxPayments
  /\ jwtBlacklist' = RouteBlacklist("create_key", tok)
  /\ apiKeys' = IF ok THEN [apiKeys EXCEPT ![uid] = Key(type, TRUE, 0)] ELSE apiKeys
  /\ subscriptions' =
       IF ok /\ withSub
         THEN [subscriptions EXCEPT ![uid] =
                 Sub("active", now, endDate, FALSE, NoDate, DEFAULT_PRICE)]
         ELSE subscriptions
  /\ payments' = IF paid THEN Append(payments, Payment(uid, DEFAULT_PRICE, "manual"))
                         ELSE payments
  /\ auditLogs' = IF ok THEN WriteAudit(auditLogs, Audit(uid, "create_api_key")) ELSE auditLogs
  /\ UNCHANGED <<impl, rateLimit, now, ticks, sessions, history, inflight>>

CreateKeyWith(D) ==
  \E tok \in Bearers, ty \in KeyTypes, ws \in BOOLEAN, d \in D :
    CreateKeyReq(tok, ty, ws, d)

CreateKey == CreateKeyWith(Durations)

\* ----------------------------------------------------------- maintenance
Min(S) == CHOOSE x \in S : \A y \in S : x <= y

\* one audit record per key of S, in the order the pass visits them
RECURSIVE AuditEach(_, _, _)
AuditEach(log, S, action) ==
  IF S = {} THEN log
  ELSE AuditEach(Append(log, Audit(Min(S), action)), S \ {Min(S)}, action)

\* one auto_renew payment per key of S
RECURSIVE PayEach(_, _)
PayEach(log, S) ==
  IF S = {} THEN log
  ELSE PayEach(Append(log, Payment(Min(S), subscriptions[Min(S)].price, "auto_renew")),
               S \ {Min(S)})

\* checkExpiredSubscriptions / the expiry loop of the Express cron route
Overdue ==
  { k \in KeyIds : /\ HasEnabledSub(k)
                   /\ subscriptions[k].status = "active"
                   /\ subscriptions[k].endDate < now }

\* checkAutoRenewSubscriptions, evaluated on the subscriptions subs that the
\* expiry pass left behind
AutoRenewable(subs) ==
  { k \in KeyIds : /\ subs[k].exists /\ subs[k].enabled
                   /\ subs[k].autoRenew
                   /\ subs[k].status = "active"
                   /\ subs[k].endDate <= now + DAY }

AfterExpiry_statusKept == subscriptions

\* the subscriptions as the expiry pass leaves them
AfterExpiry ==
  [k \in KeyIds |-> IF k \in Overdue THEN [subscriptions[k] EXCEPT !.status = "expired"]
                                     ELSE subscriptions[k]]

\* the subscriptions one maintenance run renews: runMaintenance calls
\* checkAutoRenewSubscriptions after the expiry pass; the cron route of the
\* Express server has no such pass
AutoRenewed == IF impl = "next" THEN AutoRenewable(AfterExpiry) ELSE {}

\* cleanupOldTokens deletes expiresAt < now; cleanupExpiredBlacklistedTokens
\* keeps expiresAt > now
cleanupOldTokens ==
  IF impl = "next" THEN { e \in jwtBlacklist : ~(e.expiresAt < now) }
                   ELSE { e \in jwtBlacklist : e.expiresAt > now }

\* POST /api/cron/maintenance, called by the scheduler with the cron secret:
\* runMaintenance (expiry pass, auto-renew pass, token cleanup) in the Next.js
\* application; expiry loop and token cleanup in the Express server
Maintenance ==
  LET expired == Overdue
      afterExpiry == AfterExpiry
      renewed == AutoRenewed
      audited == IF impl = "next" THEN expired ELSE {}
  IN
  /\ Len(auditLogs) + Cardinality(audited) + Cardinality(renewed) <= MaxAudit
  /\ Len(payments) + Cardinality(renewed) <= MaxPayments
  /\ subscriptions' =
       [k \in KeyIds |->
          IF k \in renewed
            THEN [afterExpiry[k] EXCEPT !.endDate = @ + AUTO_RENEW_DAYS * DAY,
                                        !.renewalDate = afterExpiry[k].endDate + AUTO_RENEW_DAYS * DAY]
            ELSE afterExpiry[k]]
  /\ apiKeys' = [k \in KeyIds |->
                   IF k \in expired /\ apiKeys[k].exists
                     THEN [apiKeys[k] EXCEPT !.isActive = FALSE]
                     ELSE apiKeys[k]]
  /\ auditLogs' = AuditEach(AuditEach(auditLogs, audited, "subscription_expired"),
                            renewed, "subscription_auto_renewed")
  /\ payments' = PayEach(payments, renewed)
  /\ jwtBlacklist' = cleanupOldTokens
  /\ UNCHANGED <<impl, rateLimit, now, ticks, sessions, history, inflight>>

\* ------------------------------------------------- requests in flight
\* The expiry pass as it runs: one query for the overdue subscriptions
\* (findMany / findAllSubscriptions), then, record by record, the update of
\* the status, the update of the key and (Next.js) the audit entry, with an
\* await in front of each and no second look at the record.
SweepRead(s) ==
  /\ inflight[s] = Idle
  /\ \A r \in Slots : inflight[r].op # "sweep"
  /\ Overdue # {}
  /\ inflight' = [inflight EXCEPT ![s] = Req("sweep", 0, NoToken, NoSub, FALSE, 0, now, Overdue)]
  /\ UNCHANGED <<impl, rateLimit, now, ticks, apiKeys, subscriptions, payments, auditLogs,
                 jwtBlacklist, sessions, history>>

\* the sweep writes the next record of its list
SweepWrite(s) ==
  /\ inflight[s].op = "sweep"
  /\ \E k \in inflight[s].pending :
       /\ impl = "next" => AuditRoom
       /\ subscriptions' = [subscriptions EXCEPT ![k].status = "expired"]
       /\ apiKeys' = IF apiKeys[k].exists THEN [apiKeys EXCEPT ![k].isActive = FALSE]
                                          ELSE apiKeys
       /\ auditLogs' = IF impl = "next"
                         THEN WriteAudit(auditLogs, Audit(k, "subscription_expired"))
                         ELSE auditLogs
       /\ inflight' = [inflight EXCEPT ![s].pending = @ \ {k}]
  /\ UNCHANGED <<impl, rateLimit, now, ticks, payments, jwtBlacklist, sessions, history>>

\* the list is done: the rest of the run (the auto-renew pass of the Next.js
\* application, the token cleanup)
SweepFinish(s) ==
  LET renewed == IF impl = "next" THEN AutoRenewable(subscriptions) ELSE {} IN
  /\ inflight[s].op = "sweep"
  /\ inflight[s].pending = {}
  /\ Len(auditLogs) + Cardinality(renewed) <= MaxAudit
  /\ Len(payments) + Cardinality(renewed) <= MaxPayments
  /\ subscriptions' =
       [k \in KeyIds |->
          IF k \in renewed
            THEN [subscriptions[k] EXCEPT !.endDate = @ + AUTO_RENEW_DAYS * DAY,
                                          !.renewalDate = subscriptions[k].endDate
                                                          + AUTO_RENEW_DAYS * DAY]
            ELSE subscriptions[k]]
  /\ auditLogs' = AuditEach(auditLogs, renewed, "subscription_auto_renewed")
  /\ payments' = PayEach(payments, renewed)
  /\ jwtBlacklist' = cleanupOldTokens
  /\ inflight' = [inflight EXCEPT ![s] = Idle]
  /\ UNCHANGED <<impl, rateLimit, now, ticks, apiKeys, sessions, history>>

Sweep == \E s \in Slots : SweepRead(s) \/ SweepWrite(s) \/ SweepFinish(s)

\* renew as it runs: the Gatekeeper and the lookups, the end date computed
\* from the record read, then the awaited update, payment and audit writes
RenewRead(s, tok, uid, durationDays) ==
  /\ inflight[s] = Idle
  /\ ~Rejected("renew", tok)
  /\ RenewCode(uid) = "OK"
  /\ jwtBlacklist' = RouteBlacklist("renew", tok)
  /\ inflight' = [inflight EXCEPT
                    ![s] = Req("renew", uid, tok, subscriptions[uid], apiKeys[uid].isActive,
                               durationDays, now, {})]
  /\ UNCHANGED <<impl, rateLimit, now, ticks, apiKeys, subscriptions, payments, auditLogs,
                 sessions, history>>

\* the end date a renew in flight computed from what it read
RenewComputed(r) ==
  (IF r.at > r.seen.endDate THEN r.at ELSE r.seen.endDate) + r.d * DAY

\* db.subscription.update / db.updateSubscription with the computed end date
\* (the fields named in the update are written, the others stay)
RenewWrite(s) ==
  LET r == inflight[s]
      uid == r.uid
      newEndDate == RenewComputed(r)
  IN
  /\ r.op = "renew"
  /\ subscriptions[uid].exists
  /\ subscriptions' =
       [subscriptions EXCEPT
          ![uid].endDate = newEndDate,
          ![uid].status = "active",
          ![uid].renewalDate =
             IF impl = "next" THEN (IF r.seen.autoRenew THEN newEndDate ELSE NoDate)
                              ELSE @]
  /\ inflight' = [inflight EXCEPT ![s].op = "renew_written"]
  /\ UNCHANGED <<impl, rateLimit, now, ticks, apiKeys, payments, auditLogs, jwtBlacklist,
                 sessions, history>>

\* the writes that follow the update: the payment, the key reactivated if it
\* was read inactive, the audit entry; the response is then due
RenewRecord(s) ==
  LET r == inflight[s] IN
  /\ r.op = "renew_written"
  /\ AuditRoom /\ Len(payments) < MaxPayments
  /\ payments' = Append(payments, Payment(r.uid, r.seen.price, "manual"))
  /\ apiKeys' = IF ~r.active /\ apiKeys[r.uid].exists
                  THEN [apiKeys EXCEPT ![r.uid].isActive = TRUE]
                  ELSE apiKeys
  /\ auditLogs' = WriteAudit(auditLogs, Audit(r.uid, "renew_subscription"))
  /\ inflight' = [inflight EXCEPT ![s].op = "renewed"]
  /\ UNCHANGED <<impl, rateLimit, now, ticks, subscriptions, jwtBlacklist, sessions, history>>

\* the response of a finished request leaves
Deliver(s) ==
  /\ inflight[s].op \in {"renewed", "refreshed", "refresh_failed"}
  /\ inflight' = [inflight EXCEPT ![s] = Idle]
  /\ UNCHANGED <<impl, rateLimit, now, ticks, apiKeys, subscriptions, payments, auditLogs,
                 jwtBlacklist, sessions, history>>

\* refresh as it runs: the blacklist lookup, the signature, the key and the
\* subscription are checked first; the new pair is signed; then the awaited
\* insert of the old token into the blacklist, and the response
RefreshCheck(s, tok) ==
  /\ inflight[s] = Idle
  /\ RefreshCode(tok) = "OK"
  /\ jwtBlacklist' = GateBlacklist(tok)
  /\ inflight' = [inflight EXCEPT
                    ![s] = Req("refresh", tok.uid, tok, NoSub, TRUE, 0, now, {})]
  /\ UNCHANGED <<impl, rateLimit, now, ticks, apiKeys, subscriptions, payments, auditLogs,
                 sessions, history>>

\* db.addToJwtBlacklist pushes whatever the list holds; blacklistToken
\* verifies the token again and then creates the row, which fails on the
\* unique token when a row for it is stored: the route answers 500 and the
\* pair it signed is dropped
RefreshCommit(s) ==
  LET r == inflight[s]
      fails == impl = "next" /\ (~verifyToken(r.tok) \/ \E e \in jwtBlacklist : e.token = r.tok)
  IN
  /\ r.op = "refresh"
  /\ ~fails => CanMint(r.uid)
  /\ jwtBlacklist' = IF fails THEN jwtBlacklist
                              ELSE jwtBlacklist \cup {Entry(r.tok, ROTATION_BLACKLIST_TTL)}
  /\ sessions' = IF fails THEN sessions ELSE sessions \cup {<<r.uid, now>>}
  /\ usedRefresh' = IF fails THEN usedRefresh ELSE usedRefresh \cup {r.tok}
  /\ inflight' = [inflight EXCEPT ![s].op = IF fails THEN "refresh_failed" ELSE "refreshed"]
  /\ UNCHANGED <<impl, rateLimit, now, ticks, apiKeys, subscriptions, payments, auditLogs, loggedOut>>

RefreshInSteps ==
  \/ \E s \in Slots, tok \in Presentable : RefreshCheck(s, tok)
  \/ \E s \in Slots : RefreshCommit(s)

RenewInSteps ==
  \/ \E s \in Slots, tok \in Bearers, uid \in KeyIds, d \in Durations : RenewRead(s, tok, uid, d)
  \/ \E s \in Slots : RenewWrite(s) \/ RenewRecord(s) \/ Deliver(s)

\* ------------------------------------------- handlers under failing writes
\* the payment and audit writes are awaited inside the handler's try block:
\* a rejected db.paymentHistory.create / db.createPayment ends the handler
\* in its catch (500); a rejected audit write does the same in the Next.js
\* routes and is caught and logged by the createAuditLog wrapper of the
\* Express server
FaultCode(fault) ==
  IF fault = "payment" THEN "INTERNAL_ERROR"
  ELSE IF fault = "audit" /\ impl = "next" THEN "INTERNAL_ERROR"
  ELSE "OK"

ActivateUnder(s, tok, uid, durationDays, autoRenew, fault) ==
  /\ inflight[s] = Idle
  /\ ~Rejected("activate", tok)
  /\ ActivateCode(uid) = "OK"
  /\ AuditRoom /\ Len(payments) < MaxPayments
  /\ jwtBlacklist' = RouteBlacklist("activate", tok)
  /\ subscriptions' = [subscriptions EXCEPT ![uid] = ActivatedSub(uid, durationDays, autoRenew)]
  /\ apiKeys' = IF impl = "next" THEN [apiKeys EXCEPT ![uid].isActive = TRUE] ELSE apiKeys
  /\ payments' = IF fault # "payment"
                   THEN Append(payments, Payment(uid, DEFAULT_PRICE, "manual"))
                   ELSE payments
  /\ auditLogs' = IF fault = "none"
                    THEN WriteAudit(auditLogs, Audit(uid, "activate_subscription"))
                    ELSE auditLogs
  /\ inflight' = [inflight EXCEPT
                    ![s] = Answered("activate_answered", uid, fault, FaultCode(fault))]
  /\ UNCHANGED <<impl, rateLimit, now, ticks, sessions, history>>

\* the key is reactivated after the payment write, before the audit write
RenewUnder(s, tok, uid, durationDays, fault) ==
  LET newEndDate == RenewedEndDate(uid, durationDays) IN
  /\ inflight[s] = Idle
  /\ ~Rejected("renew", tok)
  /\ RenewCode(uid) = "OK"
  /\ AuditRoom /\ Len(payments) < MaxPayments
  /\ jwtBlacklist' = RouteBlacklist("renew", tok)
  /\ subscriptions' =
       [subscriptions EXCEPT
          ![uid].endDate = newEndDate,
          ![uid].status = "active",
          ![uid].renewalDate =
             IF impl = "next"
               THEN (IF subscriptions[uid].autoRenew THEN newEndDate ELSE NoDate)
               ELSE @]
  /\ payments' = IF fault # "payment"
                   THEN Append(payments, Payment(uid, subscriptions[uid].price, "manual"))
                   ELSE payments
  /\ apiKeys' = IF fault # "payment" THEN [apiKeys EXCEPT ![uid].isActive = TRUE] ELSE apiKeys
  /\ auditLogs' = IF fault = "none"
                    THEN WriteAudit(auditLogs, Audit(uid, "renew_subscription"))
                    ELSE auditLogs
  /\ inflight' = [inflight EXCEPT
                    ![s] = Answered("renew_answered", uid, fault, FaultCode(fault))]
  /\ UNCHANGED <<impl, rateLimit, now, ticks, sessions, history>>

\* cancel writes no payment record
CancelUnder(s, tok, uid, fault) ==
  /\ inflight[s] = Idle
  /\ fault # "payment"
  /\ ~Rejected("cancel", tok)
  /\ CancelCode(uid) = "OK"
  /\ AuditRoom
  /\ jwtBlacklist' = RouteBlacklist("cancel", tok)
  /\ subscriptions' = [subscriptions EXCEPT ![uid] = CancelledSub(uid)]
  /\ auditLogs' = IF fault = "none"
                    THEN WriteAudit(auditLogs, Audit(uid, "cancel_subscription"))
                    ELSE auditLogs
  /\ inflight' = [inflight EXCEPT
                    ![s] = Answered("cancel_answered", uid, fault, FaultCode(fault))]
  /\ UNCHANGED <<impl, rateLimit, now, ticks, apiKeys, payments, sessions, history>>

\* ------------------------------------------ the revocation lookup failing
\* what the lookup answers: jwt.ts isTokenBlacklisted catches a storage
\* error and returns false, db.js isTokenBlacklisted lets it propagate
LookupOutcome(tok, fails) ==
  IF ~fails THEN (IF isTokenBlacklisted(tok) THEN "revoked" ELSE "clear")
  ELSE IF impl = "next" THEN "clear"
  ELSE "throws"

\* the Gatekeeper's answer; authenticateAdmin awaits the lookup outside any
\* try block, so a failing lookup leaves the request without a response
GatekeeperUnder(tok, fails) ==
  IF ~fails THEN Gatekeeper(tok)
  ELSE IF tok = NoToken THEN "MISSING_TOKEN"
  ELSE IF LookupOutcome(tok, fails) = "throws" THEN "UNHANDLED_REJECTION"
  ELSE IF ~verifyToken(tok) THEN "INVALID_TOKEN"
  ELSE IF tok.type # "admin" THEN "INSUFFICIENT_PERMISSIONS"
  ELSE IF ~apiKeys[tok.uid].exists \/ ~apiKeys[tok.uid].isActive
          \/ apiKeys[tok.uid].type # "admin" THEN "INVALID_ADMIN"
  ELSE "PASS"

\* refresh: the Express handler's catch answers 500; the Next.js handler goes
\* on, and fails only in blacklistToken when the token already has an entry
RefreshCodeUnder(tok, fails) ==
  IF ~fails THEN RefreshCode(tok)
  ELSE IF tok = NoToken THEN "MISSING_REFRESH_TOKEN"
  ELSE IF LookupOutcome(tok, fails) = "throws" THEN "INTERNAL_ERROR"
  ELSE IF ~verifyToken(tok) \/ tok.type # "refresh" THEN "INVALID_REFRESH_TOKEN"
  ELSE IF ~apiKeys[tok.uid].exists \/ ~apiKeys[tok.uid].isActive
          \/ apiKeys[tok.uid].type # "admin" THEN "INVALID_ADMIN"
  ELSE IF HasEnabledSub(tok.uid) /\ isSubscriptionExpired(subscriptions[tok.uid].endDate)
    THEN "SUBSCRIPTION_EXPIRED"
  ELSE IF \E e \in jwtBlacklist : e.token = tok THEN "INTERNAL_ERROR"
  ELSE "OK"

\* a protected read while the lookup may fail
AuthorizeUnder(s, tok, fails) ==
  /\ inflight[s] = Idle
  /\ jwtBlacklist' = IF fails THEN jwtBlacklist ELSE RouteBlacklist("list_keys", tok)
  /\ inflight' = [inflight EXCEPT
                    ![s] = Answered("authorize_answered", 0,
                                    IF fails THEN "lookup" ELSE "none",
                                    GatekeeperUnder(tok, fails))]
  /\ UNCHANGED <<impl, rateLimit, now, ticks, apiKeys, subscriptions, payments, auditLogs,
                 sessions, history>>

\* GET /api/admin/auth/refresh while the lookup may fail
RefreshUnder(s, tok, fails) ==
  LET code == RefreshCodeUnder(tok, fails) IN
  /\ inflight[s] = Idle
  /\ code = "OK" => CanMint(tok.uid)
  /\ sessions' = IF code = "OK" THEN sessions \cup { <<t.uid, t.iat>> : t \in MintPair(tok.uid) }
                                ELSE sessions
  /\ jwtBlacklist' =
       IF ~fails THEN (IF code = "OK" THEN RotatedBlacklist(tok) ELSE GateBlacklist(tok))
       ELSE IF code = "OK" THEN jwtBlacklist \cup {Entry(tok, ROTATION_BLACKLIST_TTL)}
       ELSE jwtBlacklist
  /\ usedRefresh' = IF code = "OK" THEN usedRefresh \cup {tok} ELSE usedRefresh
  /\ inflight' = [inflight EXCEPT
                    ![s] = Answered("refresh_answered", 0,
                                    IF fails THEN "lookup" ELSE "none", code)]
  /\ UNCHANGED <<impl, rateLimit, now, ticks, apiKeys, subscriptions, payments, auditLogs, loggedOut>>

\* ---------------------------------------------------------- rate limiter
checkRateLimit_countAfter(identifier, maxRequests, windowMs) ==
  LET entry == rateLimit.store[identifier] IN
  IF entry = NoEntry \/ now > entry.resetTime
    THEN [allowed |-> TRUE, remaining |-> maxRequests - 1, resetTime |-> now + windowMs,
          store |-> [rateLimit.store EXCEPT
                       ![identifier] = [count |-> 1, resetTime |-> now + windowMs]]]
  ELSE IF entry.count > maxRequests
    THEN [allowed |-> FALSE, remaining |-> 0, resetTime |-> entry.resetTime,
          store |-> rateLimit.store]
  ELSE [allowed |-> TRUE, remaining |-> maxRequests - (entry.count + 1),
        resetTime |-> entry.resetTime,
        store |-> [rateLimit.store EXCEPT ![identifier].count = entry.count + 1]]

\* checkRateLimit(identifier, maxRequests, windowMs): the answer and the store
\* the call leaves
checkRateLimit(identifier, maxRequests, windowMs) ==
  LET entry == rateLimit.store[identifier] IN
  IF entry = NoEntry \/ now > entry.resetTime
    THEN [allowed |-> TRUE, remaining |-> maxRequests - 1, resetTime |-> now + windowMs,
          store |-> [rateLimit.store EXCEPT
                       ![identifier] = [count |-> 1, resetTime |-> now + windowMs]]]
  ELSE IF entry.count >= maxRequests
    THEN [allowed |-> FALSE, remaining |-> 0, resetTime |-> entry.resetTime,
          store |-> rateLimit.store]
  ELSE [allowed |-> TRUE, remaining |-> maxRequests - (entry.count + 1),
        resetTime |-> entry.resetTime,
        store |-> [rateLimit.store EXCEPT ![identifier].count = entry.count + 1]]

\* one call under the limiter's configuration
RateLimitCall(identifier) ==
  /\ rateLimit' = [rateLimit EXCEPT
                     !.store = checkRateLimit(identifier, rateLimit.requests,
                                              rateLimit.window).store]
  /\ UNCHANGED <<impl, now, ticks, apiKeys, subscriptions, payments, auditLogs,
                 jwtBlacklist, sessions, history, inflight>>

\* ------------------------------------------------- db.js file operations
\* every db.js function reads the whole JSON file, changes the array in
\* memory and writes the whole file back, with an await between the two.
\* FileRead is the readFile of one call (seen holds the contents it got),
\* FileWrite its writeFile, after which the call has returned.
FileRead(s, op, uid, tok, isActive) ==
  /\ impl = "json"
  /\ inflight[s] = Idle
  /\ op \in {"updateApiKey", "incrementApiKeyUsage"} => apiKeys[uid].exists
  /\ op = "incrementApiKeyUsage" => apiKeys[uid].usageCount < MaxUsage
  /\ op = "addToJwtBlacklist" => verifyToken(tok)
  /\ inflight' = [inflight EXCEPT
                    ![s] = Req(op, uid, tok,
                               IF op \in {"updateApiKey", "incrementApiKeyUsage"}
                                 THEN apiKeys ELSE jwtBlacklist,
                               isActive, 0, now, {})]
  /\ UNCHANGED <<impl, rateLimit, now, ticks, apiKeys, subscriptions, payments, auditLogs,
                 jwtBlacklist, sessions, history>>

FileWrite(s) ==
  LET r == inflight[s]
      validBlacklist == { e \in r.seen : e.expiresAt > r.at }
  IN
  /\ r.op \in {"updateApiKey", "incrementApiKeyUsage", "isTokenBlacklisted",
                "addToJwtBlacklist"}
  /\ apiKeys' =
       IF r.op = "updateApiKey" THEN [r.seen EXCEPT ![r.uid].isActive = r.active]
       ELSE IF r.op = "incrementApiKeyUsage"
         THEN [r.seen EXCEPT ![r.uid].usageCount = @ + 1]
       ELSE apiKeys
  /\ jwtBlacklist' =
       IF r.op = "isTokenBlacklisted"
         THEN (IF validBlacklist # r.seen THEN validBlacklist ELSE jwtBlacklist)
       ELSE IF r.op = "addToJwtBlacklist"
         THEN r.seen \cup {Entry(r.tok, LOGOUT_BLACKLIST_TTL)}
       ELSE jwtBlacklist
  /\ inflight' = [inflight EXCEPT ![s] = [Idle EXCEPT !.op = "written"]]
  /\ UNCHANGED <<impl, rateLimit, now, ticks, subscriptions, payments, auditLogs,
                 sessions, history>>

Next ==
  \/ Tick \/ Login \/ ValidateKey \/ Refresh \/ Logout \/ Authorize
  \/ Activate \/ Renew \/ Cancel \/ UpdateKey \/ DeleteKey \/ CreateKey
  \/ Maintenance \/ Sweep \/ RenewInSteps \/ RefreshInSteps

Spec == Init /\ [][Next]_vars

\* sessions and revocation: login, refresh, logout, protected reads, the sweep
NextAuth == TickBy({1, 7 * DAY}) \/ Login \/ Refresh \/ Logout \/ Authorize \/ Maintenance

SpecAuth == InitSeed /\ [][NextAuth]_vars

\* key state against sessions: the Gatekeeper, refresh and login while keys
\* and subscriptions change
NextGate ==
  \/ TickBy({1, DAY}) \/ Login \/ Refresh \/ Authorize
  \/ Activate \/ Cancel \/ UpdateKey \/ DeleteKey \/ Maintenance

SpecGate == InitSeed /\ [][NextGate]_vars

\* refresh against the state of the key it names
NextRefresh ==
  \/ TickBy({DAY}) \/ Login \/ Refresh
  \/ Activate \/ UpdateKey \/ DeleteKey \/ Maintenance

SpecRefresh == InitSeed /\ [][NextRefresh]_vars

\* the subscription lifecycle driven by the admin routes
NextSub == TickBy({DAY}) \/ Login \/ Activate \/ Renew \/ Cancel

SpecSub == Init /\ [][NextSub]_vars

\* expiry: the inline checks of login and of the API-key middleware, refresh,
\* and the sweep, while subscriptions are activated, renewed and cancelled
NextExpiry ==
  \/ TickBy({DAY}) \/ Login \/ ValidateKey \/ Refresh
  \/ Activate \/ Renew \/ Cancel \/ Maintenance

SpecExpiry == InitSeed /\ [][NextExpiry]_vars

\* login against keys of either type, active or not, with and without a
\* subscription
NextLogin == TickBy({DAY}) \/ Login \/ Activate \/ UpdateKey \/ CreateKey

SpecLogin == InitSeed /\ [][NextLogin]_vars

\* subscription dates under every durationDays a body can carry
NextDuration ==
  \/ TickBy({DAY}) \/ ActivateWith(AnyDurations) \/ RenewWith(AnyDurations)
  \/ CreateKeyWith(AnyDurations) \/ Login \/ Maintenance

SpecDuration == InitSeed /\ [][NextDuration]_vars

\* the expiry pass in steps, among live requests on the same keys
NextSweepRace ==
  \/ TickBy({DAY}) \/ Login \/ Activate \/ Renew \/ Cancel
  \/ \E s \in Slots : SweepRead(s)
  \/ \E s \in Slots : SweepWrite(s)
  \/ \E s \in Slots : SweepFinish(s)

SpecSweepRace == InitSeed /\ [][NextSweepRace]_vars

\* two renew requests at once
NextRenewRace ==
  \/ TickBy({DAY}) \/ Login \/ ActivateWith({1})
  \/ \E s \in Slots, tok \in Bearers, uid \in KeyIds, d \in Durations : RenewRead(s, tok, uid, d)
  \/ \E s \in Slots : RenewWrite(s)
  \/ \E s \in Slots : RenewRecord(s)
  \/ \E s \in Slots : Deliver(s)

SpecRenewRace == InitSeed /\ [][NextRenewRace]_vars

\* two refresh requests at once
NextRefreshRace ==
  \/ TickBy({1, 7 * DAY}) \/ Login \/ Logout
  \/ \E s \in Slots, tok \in Presentable : RefreshCheck(s, tok)
  \/ \E s \in Slots : RefreshCommit(s)
  \/ \E s \in Slots : Deliver(s)

SpecRefreshRace == InitSeed /\ [][NextRefreshRace]_vars

\* activate, renew and cancel under failing payment and audit writes; each
\* slot serves one such request and keeps its response
NextFaults ==
  \/ TickBy({DAY}) \/ Login \/ Activate
  \/ \E s \in Slots, tok \in Bearers, uid \in KeyIds, d \in Durations, ar \in BOOLEAN,
        fault \in Faults : ActivateUnder(s, tok, uid, d, ar, fault)
  \/ \E s \in Slots, tok \in Bearers, uid \in KeyIds, d \in Durations, fault \in Faults :
        RenewUnder(s, tok, uid, d, fault)
  \/ \E s \in Slots, tok \in Bearers, uid \in KeyIds, fault \in Faults :
        CancelUnder(s, tok, uid, fault)

SpecFaults == InitSeed /\ [][NextFaults]_vars

\* sessions while the revocation lookup may fail; each slot serves one
\* such request and keeps its response
NextOutage ==
  \/ TickBy({1, 7 * DAY}) \/ Login \/ Logout
  \/ \E s \in Slots, tok \in Presentable, fails \in BOOLEAN : AuthorizeUnder(s, tok, fails)
  \/ \E s \in Slots, tok \in Presentable, fails \in BOOLEAN : RefreshUnder(s, tok, fails)

SpecOutage == InitSeed /\ [][NextOutage]_vars

\* the rate limiter under every configuration
InitRateLimit == \E n \in 0..MaxLimit, w \in {0, 1, DAY} : InitWith(NoSub, Limiter(n, w))

NextRateLimit == TickBy({1, DAY}) \/ \E c \in Callers : RateLimitCall(c)

SpecRateLimit == InitRateLimit /\ [][NextRateLimit]_vars

\* renew with and without an amount, on active, cancelled and expired
\* subscriptions and on deactivated keys
NextPaid ==
  \/ TickBy({DAY}) \/ Login \/ ActivateWith({1}) \/ Cancel \/ UpdateKey
  \/ \E tok \in Bearers, uid \in KeyIds, amount \in {NoAmount, 0, DEFAULT_PRICE + 1} :
        RenewPaidReq(tok, uid, 1, amount)

SpecPaid == InitSeed /\ [][NextPaid]_vars

\* db.js calls on the key file and on the blacklist file, interleaved; each
\* slot serves one call.  The database holds the seeded admin key and a
\* normal key the admin created in an earlier session, whose tokens have
\* expired.
InitFiles ==
  /\ impl \in Impls
  /\ now = 0
  /\ ticks = 0
  /\ apiKeys = [k \in KeyIds |-> IF k = 1 THEN Key("admin", TRUE, 1)
                                 ELSE IF k = 2 THEN Key("normal", TRUE, 0) ELSE NoKey]
  /\ subscriptions = [k \in KeyIds |-> NoSub]
  /\ payments = <<>>
  /\ auditLogs = <<Audit(1, "admin_login"), Audit(2, "create_api_key")>>
  /\ jwtBlacklist = {}
  /\ sessions = {}
  /\ usedRefresh = {}
  /\ loggedOut = {}
  /\ inflight = [s \in Slots |-> Idle]
  /\ rateLimit = Limiter(1, 1)

NextFiles ==
  \/ TickBy({DAY}) \/ Login \/ Logout
  \/ \E s \in Slots, uid \in KeyIds, a \in BOOLEAN : FileRead(s, "updateApiKey", uid, NoToken, a)
  \/ \E s \in Slots, uid \in KeyIds : FileRead(s, "incrementApiKeyUsage", uid, NoToken, FALSE)
  \/ \E s \in Slots, tok \in Issued : FileRead(s, "isTokenBlacklisted", 0, tok, FALSE)
  \/ \E s \in Slots, tok \in Issued : FileRead(s, "addToJwtBlacklist", 0, tok, FALSE)
  \/ \E s \in Slots : FileWrite(s)

SpecFiles == InitFiles /\ [][NextFiles]_vars

\* the audit log at its retention cap, the payment history under deletion
NextRetention ==
  \/ TickBy({1}) \/ Login \/ Activate \/ Renew \/ Cancel \/ UpdateKey \/ DeleteKey

SpecRetention == InitAged /\ [][NextRetention]_vars

\* the life of one subscription: activated, cancelled or left to expire,
\* renewed by the admin or by the sweep, removed with its key
NextLifecycle ==
  \/ TickBy({DAY}) \/ Login \/ Refresh
  \/ Activate \/ Renew \/ Cancel \/ DeleteKey \/ Maintenance

SpecLifecycle == InitSeed /\ [][NextLifecycle]_vars

\* the sweep with work for each of its passes: subscriptions running out
\* with and without auto-renewal, revocation entries of logouts going stale
NextSweep == TickBy({DAY}) \/ Login \/ Logout \/ ActivateWith({1}) \/ Maintenance

SpecSweep == InitSeed /\ [][NextSweep]_vars

\* the admin operations on keys and subscriptions
NextAdmin ==
  \/ Tick \/ Login
  \/ Activate \/ Renew \/ Cancel \/ UpdateKey \/ DeleteKey \/ CreateKey

SpecAdmin == Init /\ [][NextAdmin]_vars

\* =================================================================
\* Claims
\* =================================================================
\* an access token the Gatekeeper has no token-level reason to refuse
ValidAccess(tok) ==
  /\ tok \in Issued
  /\ tok.type = "admin"
  /\ verifyToken(tok)
  /\ ~isTokenBlacklisted(tok)

ActiveAdmin(uid) ==
  apiKeys[uid].exists /\ apiKeys[uid].isActive /\ apiKeys[uid].type = "admin"

\* C1: for an active admin key with an enabled subscription, a Gatekeeper
\* check with a valid, unrevoked access token at now > endDate fails with
\* SubscriptionExpired (and the stored status becomes 'expired').
C1_GatekeeperRejectsExpired ==
  \A tok \in Issued :
    ( /\ ValidAccess(tok)
      /\ ActiveAdmin(tok.uid)
      /\ HasEnabledSub(tok.uid)
      /\ now > subscriptions[tok.uid].endDate )
    => Gatekeeper(tok) = "SUBSCRIPTION_EXPIRED"

\* some admin route handled a request carrying tok
AdminRequest(tok) ==
  \/ \E uid \in KeyIds, d \in Durations, ar \in BOOLEAN : ActivateReq(tok, uid, d, ar)
  \/ \E uid \in KeyIds, d \in Durations : RenewReq(tok, uid, d)
  \/ \E uid \in KeyIds : CancelReq(tok, uid)
  \/ \E uid \in KeyIds, a \in BOOLEAN : UpdateKeyReq(tok, uid, a)
  \/ \E uid \in KeyIds : DeleteKeyReq(tok, uid)
  \/ \E ty \in KeyTypes, ws \in BOOLEAN, d \in Durations : CreateKeyReq(tok, ty, ws, d)

\* C2: an admin request without a token, or with a token the Gatekeeper
\* rejects, changes no key record and no subscription record.
C2_NoChangeWithoutGatekeeper ==
  [][ \A tok \in Bearers :
        (Gatekeeper(tok) # "PASS" /\ AdminRequest(tok))
        => UNCHANGED <<apiKeys, subscriptions>> ]_vars

\* C3: a valid, unrevoked access token whose key has isActive = FALSE does
\* not pass the Gatekeeper.
C3_InactiveKeyRejected ==
  \A tok \in Issued :
    (ValidAccess(tok) /\ apiKeys[tok.uid].exists /\ ~apiKeys[tok.uid].isActive)
    => Gatekeeper(tok) # "PASS"

UsableRefresh(tok) ==
  /\ tok \in Issued
  /\ tok.type = "refresh"
  /\ verifyToken(tok)
  /\ ~isTokenBlacklisted(tok)

\* C4 (as the code has it): a refresh token that one refresh has used is
\* refused by every later refresh, whatever ran in between and until the
\* token expires, and mints nothing; while its revocation entry is live the
\* Express server answers BLACKLISTED_TOKEN and the Next.js route
\* INVALID_REFRESH_TOKEN.
C4_UsedRefreshRefused ==
  \A tok \in usedRefresh :
    /\ RefreshMinted(tok) = {}
    /\ RefreshCode(tok) \in {"BLACKLISTED_TOKEN", "INVALID_REFRESH_TOKEN"}
    /\ isTokenBlacklisted(tok) =>
         RefreshCode(tok) = (IF impl = "json" THEN "BLACKLISTED_TOKEN"
                                              ELSE "INVALID_REFRESH_TOKEN")

\* C4 as stated: the later refresh fails, and with TokenRevoked while the
\* token is revoked.
C4_UsedRefreshRevoked ==
  \A tok \in usedRefresh :
    /\ RefreshMinted(tok) = {}
    /\ isTokenBlacklisted(tok) => RefreshCode(tok) = "BLACKLISTED_TOKEN"

\* a used refresh token at a later instant, still unexpired
C4_Witness ==
  \E tok \in usedRefresh :
    /\ verifyToken(tok)
    /\ now > tok.iat

C6_RefreshRevalidates ==
  \A tok \in Issued :
    UsableRefresh(tok) =>
      /\ (~apiKeys[tok.uid].exists \/ ~apiKeys[tok.uid].isActive)
           => (RefreshCode(tok) = "INVALID_ADMIN" /\ RefreshMinted(tok) = {})
      /\ (ActiveAdmin(tok.uid) /\ HasEnabledSub(tok.uid)
            /\ now > subscriptions[tok.uid].endDate)
           => (RefreshCode(tok) = "SUBSCRIPTION_EXPIRED" /\ RefreshMinted(tok) = {})

\* a usable refresh token whose key's subscription has run out
C6_Witness ==
  \E tok \in Issued :
    /\ UsableRefresh(tok)
    /\ ActiveAdmin(tok.uid)
    /\ HasEnabledSub(tok.uid)
    /\ now > subscriptions[tok.uid].endDate

\* C7: a renew that succeeds with duration D on a stored end date E stores
\* max(now, E) + D.
C7_RenewExtendsFromMax ==
  [][ \A tok \in Bearers, uid \in KeyIds, d \in Durations :
        (~Rejected("renew", tok) /\ RenewCode(uid) = "OK" /\ RenewReq(tok, uid, d))
        => subscriptions'[uid].endDate = Max(now, subscriptions[uid].endDate) + d * DAY ]_vars

\* a renewed subscription that ends later than any renew counted from now
C7_Witness ==
  \E uid \in KeyIds :
    /\ \E i \in 1..Len(auditLogs) : auditLogs[i] = Audit(uid, "renew_subscription")
    /\ subscriptions[uid].endDate > now + 7 * DAY

\* C8: with a cancelled subscription on an active admin key, login, refresh
\* and the Gatekeeper succeed while now <= endDate and fail with
\* SUBSCRIPTION_EXPIRED once now > endDate.
C8_CancelledUsableUntilEnd ==
  \A uid \in KeyIds :
    (ActiveAdmin(uid) /\ HasEnabledSub(uid) /\ subscriptions[uid].status = "cancelled")
    => /\ LoginCode(uid) = (IF now > subscriptions[uid].endDate
                              THEN "SUBSCRIPTION_EXPIRED" ELSE "OK")
       /\ \A tok \in Issued :
            (tok.uid = uid /\ UsableRefresh(tok))
            => RefreshCode(tok) = (IF now > subscriptions[uid].endDate
                                     THEN "SUBSCRIPTION_EXPIRED" ELSE "OK")
       /\ \A tok \in Issued :
            (tok.uid = uid /\ ValidAccess(tok))
            => Gatekeeper(tok) = (IF now > subscriptions[uid].endDate
                                    THEN "SUBSCRIPTION_EXPIRED" ELSE "PASS")

\* C9: a cancel that succeeds stores autoRenew = FALSE and status cancelled
\* and leaves every other field of the subscription, and the keys and
\* payments, as they were; a cancel on a key without a subscription, or with
\* a subscription that is not enabled, answers not-found / not-active and
\* changes no key, subscription, payment or audit record.
C9_CancelEffect ==
  [][ \A tok \in Bearers, uid \in KeyIds :
        CancelReq(tok, uid) =>
          IF ~Rejected("cancel", tok) /\ HasEnabledSub(uid)
               /\ (impl = "next" => apiKeys[uid].exists)
            THEN /\ subscriptions' =
                      [subscriptions EXCEPT ![uid] =
                         [@ EXCEPT !.autoRenew = FALSE, !.status = "cancelled"]]
                 /\ UNCHANGED <<apiKeys, payments>>
            ELSE /\ UNCHANGED store
                 /\ (~Rejected("cancel", tok) /\ (impl = "next" => apiKeys[uid].exists))
                      => CancelCode(uid) \in {"NO_SUBSCRIPTION", "SUBSCRIPTION_NOT_FOUND",
                                              "SUBSCRIPTION_NOT_ACTIVE"} ]_vars

\* a cancelled subscription with time left on it
C9_Witness ==
  \E uid \in KeyIds :
    /\ subscriptions[uid].status = "cancelled"
    /\ subscriptions[uid].enabled
    /\ subscriptions[uid].endDate > now
    /\ apiKeys[uid].isActive

ActivationsOf(uid) ==
  { i \in 1..Len(auditLogs) : auditLogs[i] = Audit(uid, "activate_subscription") }

\* C10: on an existing key with an enabled subscription activate answers
\* SUBSCRIPTION_EXISTS, and such a request changes no subscription, key,
\* payment or audit record; so no key is ever activated twice.
C10_ActivateOnce ==
  /\ [](\A uid \in KeyIds :
          /\ (apiKeys[uid].exists /\ HasEnabledSub(uid))
               => ActivateCode(uid) = "SUBSCRIPTION_EXISTS"
          /\ Cardinality(ActivationsOf(uid)) <= 1)
  /\ [][ \A tok \in Bearers, uid \in KeyIds, d \in Durations, ar \in BOOLEAN :
           (apiKeys[uid].exists /\ HasEnabledSub(uid) /\ ActivateReq(tok, uid, d, ar))
           => UNCHANGED store ]_vars

\* an activated subscription, later cancelled, that still refuses activate
C10_Witness ==
  \E uid \in KeyIds :
    /\ Cardinality(ActivationsOf(uid)) = 1
    /\ subscriptions[uid].status = "cancelled"
    /\ ActivateCode(uid) = "SUBSCRIPTION_EXISTS"

\* C11: login with the value of an active admin key whose enabled
\* subscription has now > endDate answers SUBSCRIPTION_EXPIRED and returns no
\* token; the request signs nothing, leaves the key record (usageCount) as it
\* was and leaves the stored status 'expired'.
C11_ExpiredLoginRefused ==
  /\ [](\A cred \in KeyIds :
          (ActiveAdmin(cred) /\ HasEnabledSub(cred) /\ now > subscriptions[cred].endDate)
          => (LoginCode(cred) = "SUBSCRIPTION_EXPIRED" /\ LoginMinted(cred) = {}))
  /\ [][ \A cred \in KeyIds :
           ( /\ ActiveAdmin(cred)
             /\ HasEnabledSub(cred)
             /\ now > subscriptions[cred].endDate
             /\ LoginReq(cred) )
           => /\ sessions' = sessions
              /\ apiKeys' = apiKeys
              /\ subscriptions'[cred].status = "expired" ]_vars

\* a refused login has marked the subscription of a still active key
C11_Witness ==
  \E uid \in KeyIds :
    /\ ActiveAdmin(uid)
    /\ HasEnabledSub(uid)
    /\ now > subscriptions[uid].endDate
    /\ subscriptions[uid].status = "expired"
    /\ apiKeys[uid].usageCount = 0

\* C12: applying expiry to a subscription that an earlier application already
\* marked 'expired' performs no write and counts no expired record, on the
\* inline path (login) as in the bulk pass (Overdue is what the pass updates
\* and reports).
C12_ExpiryIdempotent ==
  \A k \in KeyIds :
    (HasEnabledSub(k) /\ subscriptions[k].status = "expired")
    => (k \notin Overdue /\ LoginExpiryWrites(k) = {})

\* C13: a step that turns a stored status into 'expired' finds the
\* subscription enabled, with status 'active' and now > endDate, and in the
\* same step sets the key's isActive to false and appends a
\* 'subscription_expired' audit entry for it; in particular a 'cancelled'
\* status is never overwritten with 'expired'.
C13_ExpiredOnlyFromActive ==
  [][ \A k \in KeyIds :
        (subscriptions[k].status # "expired" /\ subscriptions'[k].status = "expired")
        => /\ subscriptions[k].enabled
           /\ subscriptions[k].status = "active"
           /\ now > subscriptions[k].endDate
           /\ ~apiKeys'[k].isActive
           /\ Len(auditLogs') > Len(auditLogs)
           /\ \E i \in (Len(auditLogs) + 1)..Len(auditLogs') :
                auditLogs'[i] = Audit(k, "subscription_expired") ]_vars

\* C14: expiry is decided by the strict comparison now > endDate: at the
\* instant now = endDate an enabled subscription does not refuse login, the
\* API-key middleware or refresh, is not selected by the maintenance expiry
\* pass, and renew extends from the stored end date.
C14_ValidAtEndDate ==
  \A k \in KeyIds :
    (HasEnabledSub(k) /\ now = subscriptions[k].endDate)
    => /\ ActiveAdmin(k) => LoginCode(k) = "OK"
       /\ (apiKeys[k].exists /\ apiKeys[k].isActive) => validateApiKey(k) = "PASS"
       /\ \A tok \in Issued : (tok.uid = k /\ UsableRefresh(tok)) => RefreshCode(tok) = "OK"
       /\ k \notin Overdue
       /\ \A d \in Durations :
            RenewedEndDate(k, d) = calculateEndDate(subscriptions[k].endDate, d)

\* the clock stands exactly on the end date of an active admin key that holds
\* a usable refresh token
C14_Witness ==
  \E k \in KeyIds :
    /\ HasEnabledSub(k)
    /\ now = subscriptions[k].endDate
    /\ ActiveAdmin(k)
    /\ \E tok \in Issued : tok.uid = k /\ UsableRefresh(tok)

\* C15: the Gatekeeper answers with the first reason that fails in the order
\* MissingToken, TokenRevoked, InvalidToken/TokenExpired, WrongTokenType,
\* KeyNotFound, InactiveOrNotAdmin, SubscriptionExpired, and passes only when
\* none fails.  first(tok) is that reason; reasons(code) are the reasons an
\* answer of the code stands for.
C15_FirstFailingReason ==
  LET first(tok) ==
        IF tok = NoToken THEN "MissingToken"
        ELSE IF isTokenBlacklisted(tok) THEN "TokenRevoked"
        ELSE IF ~verifyToken(tok) THEN "InvalidToken"
        ELSE IF tok.type # "admin" THEN "WrongTokenType"
        ELSE IF ~apiKeys[tok.uid].exists THEN "KeyNotFound"
        ELSE IF ~apiKeys[tok.uid].isActive \/ apiKeys[tok.uid].type # "admin"
          THEN "InactiveOrNotAdmin"
        ELSE IF HasEnabledSub(tok.uid) /\ now > subscriptions[tok.uid].endDate
          THEN "SubscriptionExpired"
        ELSE "Pass"
      reasons(code) ==
        CASE code = "MISSING_TOKEN" -> {"MissingToken"}
          [] code = "BLACKLISTED_TOKEN" -> {"TokenRevoked"}
          [] code = "INVALID_TOKEN" ->
               IF impl = "next" THEN {"TokenRevoked", "InvalidToken"}
                                ELSE {"InvalidToken", "WrongTokenType"}
          [] code = "INSUFFICIENT_PERMISSIONS" -> {"WrongTokenType"}
          [] code = "INVALID_ADMIN" -> {"KeyNotFound", "InactiveOrNotAdmin"}
          [] code = "PASS" -> {"Pass"}
  IN  \A tok \in Presentable : first(tok) \in reasons(Gatekeeper(tok))

\* C16: once a key is deleted, every Gatekeeper check and every refresh made
\* with a token signed for it before the deletion fails.
C16_DeletedKeyTokensFail ==
  \A tok \in Issued :
    apiKeys[tok.uid].gone
    => (Gatekeeper(tok) # "PASS" /\ RefreshCode(tok) # "OK" /\ RefreshMinted(tok) = {})

\* C17: logout succeeds for every bearer token, whether valid, expired,
\* malformed or already logged out, and a repeated logout leaves the token
\* revoked as the first one did.
C17_LogoutAlwaysSucceeds ==
  /\ [](\A tok \in Presentable \ {NoToken} : LogoutCode(tok) = "OK")
  /\ [][ \A tok \in loggedOut :
           LogoutReq(tok) => (verifyToken(tok) => isTokenBlacklisted(tok)') ]_vars

C20_EndAfterStart ==
  \A k \in KeyIds :
    subscriptions[k].exists => subscriptions[k].endDate > subscriptions[k].startDate

\* C21: every stored subscription has renewalDate equal to its endDate when
\* autoRenew is true and no renewalDate when autoRenew is false.
C21_RenewalDateFollowsAutoRenew ==
  \A k \in KeyIds :
    subscriptions[k].exists
    => subscriptions[k].renewalDate =
         (IF subscriptions[k].autoRenew THEN subscriptions[k].endDate ELSE NoDate)

\* C22: one maintenance run extends by exactly 30 days the endDate of every
\* subscription that is enabled, active, autoRenew and ends within the next
\* 24 hours (and was not overdue, which the expiry pass takes first), records
\* one 'auto_renew' payment and one audit entry for each of them, and leaves
\* the dates, price and autoRenew flag of every other subscription as they
\* were.
C22_AutoRenewSweep ==
  /\ [](\A k \in KeyIds :
          k \in AutoRenewed <=> ( /\ HasEnabledSub(k)
                                  /\ subscriptions[k].status = "active"
                                  /\ subscriptions[k].autoRenew
                                  /\ subscriptions[k].endDate <= now + DAY
                                  /\ ~(subscriptions[k].endDate < now) ))
  /\ [][ Maintenance =>
        LET due == { k \in KeyIds : /\ HasEnabledSub(k)
                                    /\ subscriptions[k].status = "active"
                                    /\ subscriptions[k].autoRenew
                                    /\ subscriptions[k].endDate <= now + DAY
                                    /\ ~(subscriptions[k].endDate < now) }
            newPayments == { payments'[i] : i \in (Len(payments) + 1)..Len(payments') }
            newAudits == { auditLogs'[i] : i \in (Len(auditLogs) + 1)..Len(auditLogs') }
        IN
        /\ \A k \in due :
             /\ subscriptions'[k].endDate = subscriptions[k].endDate + 30 * DAY
             /\ subscriptions'[k].status = "active"
             /\ Payment(k, subscriptions[k].price, "auto_renew") \in newPayments
             /\ Audit(k, "subscription_auto_renewed") \in newAudits
        /\ Len(payments') = Len(payments) + Cardinality(due)
        /\ \A k \in KeyIds \ due :
             /\ subscriptions'[k].endDate = subscriptions[k].endDate
             /\ subscriptions'[k].startDate = subscriptions[k].startDate
             /\ subscriptions'[k].autoRenew = subscriptions[k].autoRenew
             /\ subscriptions'[k].renewalDate = subscriptions[k].renewalDate
             /\ Audit(k, "subscription_auto_renewed") \notin newAudits ]_vars

\* C23: when the sweep writes 'expired' / isActive = false to a record, the
\* record still is enabled, 'active' and past its end date at the moment of
\* the write, whatever renew, activate or inline expiry ran since the sweep
\* read its list; a subscription renewed during the sweep is not expired by it.
C23_SweepWritesGuarded ==
  [][ \A s \in Slots, k \in KeyIds :
        ( /\ inflight[s].op = "sweep"
          /\ k \in inflight[s].pending
          /\ k \notin inflight'[s].pending
          /\ SweepWrite(s) )
        => /\ subscriptions[k].enabled
           /\ subscriptions[k].status = "active"
           /\ now > subscriptions[k].endDate ]_vars

\* C24: when two renew requests with durations D1 and D2 run at once on a
\* subscription with end date E and both succeed, the stored end date is
\* max(now, E) + D1 + D2: the write of the second includes the extension of
\* the first.
C24_NoLostRenewal ==
  [][ \A s \in Slots, r \in Slots :
        ( /\ s # r
          /\ inflight[s].op = "renew"
          /\ inflight[r].op = "renewed"
          /\ inflight[r].uid = inflight[s].uid
          /\ inflight[r].seen = inflight[s].seen
          /\ inflight[r].at = inflight[s].at
          /\ RenewWrite(s) )
        => subscriptions'[inflight[s].uid].endDate =
             Max(inflight[s].at, inflight[s].seen.endDate)
             + inflight[s].d * DAY + inflight[r].d * DAY ]_vars

\* C25: a refresh token is single-use under concurrency: a refresh request
\* returns a new pair only for a token that no earlier successful refresh has
\* consumed, in whatever order the steps of two requests run.
C25_SingleUseUnderConcurrency ==
  [][ \A s \in Slots :
        ( /\ inflight[s].op = "refresh"
          /\ RefreshCommit(s)
          /\ inflight'[s].op = "refreshed" )
        => inflight[s].tok \notin usedRefresh ]_vars

\* C26: every subscription state transition (activate, renew, cancel, expiry
\* inline or by the sweep, auto-renewal) appends, in the same operation, a new
\* audit-log record for the affected key.
C26_TransitionsAudited ==
  [][ \A k \in KeyIds :
        ( /\ subscriptions'[k].exists
          /\ \/ subscriptions'[k].status # subscriptions[k].status
             \/ subscriptions'[k].endDate # subscriptions[k].endDate )
        => \E i \in (Len(auditLogs) + 1)..Len(auditLogs') : auditLogs'[i].apiKeyUid = k ]_vars

\* C27: the audit log and the payment history are append-only: every step
\* leaves the entries stored before it in place and unmodified, also when
\* audit entries are written beyond the retention cap and when a key is
\* deleted.
C27_AppendOnly ==
  [][ /\ Len(auditLogs') >= Len(auditLogs)
      /\ SubSeq(auditLogs', 1, Len(auditLogs)) = auditLogs
      /\ Len(payments') >= Len(payments)
      /\ SubSeq(payments', 1, Len(payments)) = payments ]_vars

\* C28: a failing payment-record write or audit-log write during activate,
\* renew or cancel does not fail the operation: the handler still answers
\* success, and the subscription change (and for renew the reactivated key)
\* is stored.
C28_RecordFailureTolerated ==
  [][ \A s \in Slots :
        (/\ inflight[s] = Idle
         /\ inflight'[s].op \in AnsweredOps
         /\ inflight'[s].fault \in {"payment", "audit"})
        => /\ inflight'[s].code = "OK"
           /\ subscriptions'[inflight'[s].uid].status =
                (IF inflight'[s].op = "cancel_answered" THEN "cancelled" ELSE "active")
           /\ inflight'[s].op = "renew_answered" => apiKeys'[inflight'[s].uid].isActive ]_vars

\* C29: a storage failure during the revocation lookup is never swallowed:
\* the lookup does not answer 'not revoked', and neither the Gatekeeper nor
\* refresh accepts the token presented; the request ends in a storage
\* failure.
C29_LookupFailureSurfaced ==
  \A tok \in Presentable \ {NoToken} :
    /\ LookupOutcome(tok, TRUE) = "throws"
    /\ GatekeeperUnder(tok, TRUE) # "PASS"
    /\ RefreshCodeUnder(tok, TRUE) = "INTERNAL_ERROR"

\* C30: the key-state rules are enforced identically everywhere: for a key
\* with a valid access token and a usable refresh token, login's checks after
\* the key lookup, refresh and the Gatekeeper take the same accept/reject
\* decision on (key exists, isActive, type admin, subscription valid).
C30_SameKeyStateDecision ==
  \A a \in Issued, r \in Issued :
    (ValidAccess(a) /\ UsableRefresh(r) /\ a.uid = r.uid)
    => /\ (LoginCode(a.uid) = "OK") <=> (RefreshCode(r) = "OK")
       /\ (RefreshCode(r) = "OK") <=> (Gatekeeper(a) = "PASS")

C32_EntryOutlivesToken ==
  /\ \A e \in jwtBlacklist : e.expiresAt >= TokenExp(e.token)
  /\ \A tok \in loggedOut \cup usedRefresh :
       Gatekeeper(tok) # "PASS" /\ RefreshCode(tok) # "OK"

\* C33: a renew that succeeds leaves the subscription 'active' (also when it
\* was 'expired' or 'cancelled'), the key with isActive = TRUE, and exactly
\* one new payment whose amount is the amount supplied or, with none
\* supplied, the subscription's price; a renew on a key without a
\* subscription answers not-found and changes no stored record.
C33_RenewEffect ==
  [][ \A tok \in Bearers, uid \in KeyIds, amount \in {NoAmount, 0, DEFAULT_PRICE + 1} :
        (~Rejected("renew", tok) /\ apiKeys[uid].exists
           /\ RenewPaidReq(tok, uid, 1, amount))
        => IF subscriptions[uid].exists
             THEN /\ subscriptions'[uid].status = "active"
                  /\ apiKeys'[uid].isActive
                  /\ payments' =
                       Append(payments,
                              Payment(uid, IF amount = NoAmount THEN subscriptions[uid].price
                                                                ELSE amount, "manual"))
             ELSE /\ RenewCode(uid) \in {"NO_SUBSCRIPTION", "SUBSCRIPTION_NOT_FOUND"}
                  /\ UNCHANGED store ]_vars

\* C34: revoking inserts into the revocation set only for a token that
\* verifies at the time of the call; for a token that does not verify the
\* call fails (logout does not answer success) and the set gets no entry.
C34_RevokeVerifiesFirst ==
  /\ [](\A tok \in Presentable \ {NoToken} : ~verifyToken(tok) => LogoutCode(tok) # "OK")
  /\ [][ \A e \in jwtBlacklist' \ jwtBlacklist : verifyToken(e.token) ]_vars

\* C35: the lookup answers 'revoked' exactly when the set holds an entry for
\* the token whose recorded expiry is still in the future; a lookup (and the
\* cleanup) removes only entries whose expiry is no longer in the future, so
\* it never changes the answer for a token whose entry is still live.
C35_LookupExact ==
  LET InFuture(e) == e.expiresAt > now IN
  /\ \A tok \in Issued :
       isTokenBlacklisted(tok) <=> \E e \in jwtBlacklist : e.token = tok /\ InFuture(e)
  /\ \A tok \in Presentable \ {NoToken} :
       /\ PruneOnLookup(tok) \subseteq jwtBlacklist
       /\ \A e \in jwtBlacklist : InFuture(e) => e \in PruneOnLookup(tok)
  /\ cleanupOldTokens \subseteq jwtBlacklist
  /\ \A e \in jwtBlacklist : InFuture(e) => e \in cleanupOldTokens

\* C36: writes are atomic per record: the write of an operation on one key
\* leaves every other key record as stored, an insert into the revocation
\* set removes no stored entry, and the prune of a lookup removes only
\* entries that have expired, so an entry just added is not lost to it.
C36_PerRecordWrites ==
  [][ \A s \in Slots :
        (inflight[s].op \in {"updateApiKey", "incrementApiKeyUsage", "isTokenBlacklisted",
                             "addToJwtBlacklist"}
           /\ FileWrite(s))
        => /\ \A k \in KeyIds : k # inflight[s].uid => apiKeys'[k] = apiKeys[k]
           /\ inflight[s].op = "addToJwtBlacklist" => jwtBlacklist \subseteq jwtBlacklist'
           /\ \A e \in jwtBlacklist \ jwtBlacklist' : ~(e.expiresAt > now) ]_vars

\* C37: a subscription exists only together with its key: every stored
\* subscription belongs to an existing key, and once a key has been deleted
\* neither its subscription nor any payment recorded for it is stored.
C37_SubscriptionWithKey ==
  \A k \in KeyIds :
    /\ subscriptions[k].exists => apiKeys[k].exists
    /\ apiKeys[k].gone =>
         /\ ~subscriptions[k].exists
         /\ \A i \in 1..Len(payments) : payments[i].apiKeyUid # k

\* C38: the 'expiring' classification applies only to valid subscriptions:
\* for every stored end date and every threshold, isSubscriptionNearExpiry is
\* true only if now <= endDate, so no subscription counts both as expired
\* and as expiring.
C38_ExpiringIsValid ==
  \A k \in KeyIds, daysThreshold \in {0, 1, 7} :
    (subscriptions[k].exists
       /\ isSubscriptionNearExpiry(subscriptions[k].endDate, daysThreshold))
    => /\ now <= subscriptions[k].endDate
       /\ ~isSubscriptionExpired(subscriptions[k].endDate)

\* C39: no operation stores enabled = false: while a key has a subscription
\* the subscription is enabled and activate on that key answers that a
\* subscription already exists, whatever its status and end date; the
\* subscription stays until its key is deleted, and a step that makes an
\* inactive (cancelled, expired or overdue) subscription active is a renew.
C39_ActivateOnlyOnce ==
  /\ [](\A k \in KeyIds :
          subscriptions[k].exists =>
            /\ subscriptions[k].enabled
            /\ apiKeys[k].exists
            /\ ActivateCode(k) = "SUBSCRIPTION_EXISTS")
  /\ [][\A k \in KeyIds :
          subscriptions[k].exists =>
            /\ subscriptions'[k].exists \/ ~apiKeys'[k].exists
            /\ (/\ subscriptions'[k].exists
                /\ ~(/\ subscriptions[k].status = "active"
                      /\ ~isSubscriptionExpired(subscriptions[k].endDate))
                /\ subscriptions'[k].status = "active"
                /\ ~(now' > subscriptions'[k].endDate))
               => \E tok \in Bearers, d \in Durations : RenewReq(tok, k, d)]_vars

\* a cancelled subscription past its end date, on which activate is refused
C39_Witness ==
  \E k \in KeyIds :
    /\ subscriptions[k].exists /\ subscriptions[k].status = "cancelled"
    /\ now > subscriptions[k].endDate
    /\ ActivateCode(k) = "SUBSCRIPTION_EXISTS"

\* C40: a maintenance run leaves nothing for a second run at the same
\* instant: after the sweep no subscription is overdue, none is due for
\* auto-renewal and no revocation entry is left to clean, so the second run
\* reports zero expired, zero renewed and zero cleaned, and writes no
\* subscription, payment or audit entry.
C40_SweepIdempotent ==
  [][Maintenance =>
       /\ Overdue' = {}
       /\ AutoRenewed' = {}
       /\ cleanupOldTokens' = jwtBlacklist'
       /\ AfterExpiry' = subscriptions'
       /\ PayEach(payments, AutoRenewed)' = payments']_vars

\* the state a sweep leaves after it auto-renewed a subscription and
\* removed the revocation entry of a logout
C40_Witness ==
  /\ auditLogs # <<>>
  /\ auditLogs[Len(auditLogs)].action = "subscription_auto_renewed"
  /\ loggedOut # {} /\ jwtBlacklist = {}
  /\ Overdue = {} /\ AutoRenewed = {}
====
